---- MODULE Spec2Model ----
(***************************************************************************)
(* A model of bsinglet/cipher_tools: the Caesar and Vigenere ciphers of    *)
(* cipher_tools.py, the Kasiski examination of vigenere_cracking.py and    *)
(* the rectangles and spirals of transposition.py.                         *)
(*                                                                         *)
(* A Python str is a sequence of code points (ord values), a Python list   *)
(* is a sequence, and a Python dict is a sequence of [key, val] records in *)
(* insertion order with no key repeated.  Python indices are 0-based; the  *)
(* model keeps them 0-based wherever they are data (occurrence indices)    *)
(* and adds 1 only when it reads a TLA+ sequence.                          *)
(***************************************************************************)
EXTENDS Integers, Sequences, FiniteSets, TLC

(***************************************************************************)
(* Bounds of the model.                                                    *)
(***************************************************************************)
\* longest ciphertext drawn from SmallAlphabet for the examination
MaxTextLen == 6
\* largest minimum_pattern_length given to the examination
MaxMinimum == 3
\* largest maximum_pattern_length given to the examination
MaxMaximum == 6
\* the interpreter's recursion limit (1000 in CPython), scaled to the model:
\* larger than any maximum_pattern_length - minimum_pattern_length
RecursionLimit == 8
\* longest text and key handed to vigenere_encode / vigenere_decode
MaxPlainLen == 3
MaxKeyLen == 2
\* pattern tables handed directly to remove_redundant_patterns
MaxTableEntries == 2
MaxTableKeyLen == 2
MaxTableIndex == 1
\* longest text handed to rotate, and the largest shift in either direction
MaxRotateLen == 2
MaxRotateBy == 27
\* largest width and length handed to get_spiral
MaxSpiralSide == 4
\* largest width and length handed to form_rectangle_vertically
MaxRectangleSide == 3

(***************************************************************************)
(* Code points.                                                            *)
(***************************************************************************)
ord_a == 97
ord_z == 122
ord_A == 65
ord_Z == 90
AlphabetSize == 26

Min(a, b) == IF a <= b THEN a ELSE b

\* Python's s[i:j] for 0 <= i: the slice stops at the end of s.
Slice(s, i, j) == SubSeq(s, i + 1, Min(j, Len(s)))

\* every sequence over S of a length in lo..hi
SeqsOver(S, lo, hi) == UNION {[1..n -> S] : n \in lo..hi}

\* every order in which the elements of a finite set can be listed
Orderings(S) ==
    {s \in [1..Cardinality(S) -> S] : \A i, j \in 1..Cardinality(S) : i # j => s[i] # s[j]}

(***************************************************************************)
(* cipher_tools.py                                                         *)
(***************************************************************************)
rotate_letter(letter, rotate_by) ==
    IF letter \in ord_a..ord_z
    THEN ((letter - ord_a + rotate_by) % AlphabetSize) + ord_a
    ELSE IF letter \in ord_A..ord_Z
         THEN ((letter - ord_A + rotate_by) % AlphabetSize) + ord_A
         ELSE letter

\* rotate without the wrap around the alphabet: every letter moves rotate_by
\* code points
rotate_unwrapped(plaintext, rotate_by) ==
    [x \in 1..Len(plaintext) |->
        IF plaintext[x] \in (ord_a..ord_z) \cup (ord_A..ord_Z)
        THEN plaintext[x] + rotate_by
        ELSE plaintext[x]]

\* rotate: rotate_letter on every character, joined in order
rotate(plaintext, rotate_by) ==
    [x \in 1..Len(plaintext) |-> rotate_letter(plaintext[x], rotate_by)]

\* str.lower() on one code point of the ASCII range
lower(c) == IF c \in ord_A..ord_Z THEN c - ord_A + ord_a ELSE c

RECURSIVE repeat_list(_, _)
\* Python's list * n
repeat_list(l, n) == IF n <= 0 THEN <<>> ELSE l \o repeat_list(l, n - 1)

\* lines 78-91 of vigenere_encode, reached once the assertion has passed and
\* the key is not empty
vigenere_encode_body(text, key) ==
    LET key_list == [i \in 1..Len(key) |-> lower(key[i]) - ord_a]
        key_text_list == repeat_list(key_list, Len(text) \div Len(key))
                           \o SubSeq(key_list, 1, Len(text) % Len(key))
    IN  [x \in 1..Len(text) |-> rotate_letter(text[x], key_text_list[x])]

\* vigenere_encode with its assertion left out
no_assertion(text, key) == TRUE

\* the `assert len(text) >= len(key)` of vigenere_encode
encode_assertion(text, key) == Len(text) >= Len(key)

\* the error the source raises for an argument it refuses: its assert
InvalidArgument == "AssertionError"

\* A call of vigenere_encode: the exception it raises ("none" when it
\* returns) and the text it returns.
vigenere_encode(text, key) ==
    IF ~encode_assertion(text, key)
    THEN [raised |-> InvalidArgument, value |-> <<>>]
    ELSE IF Len(key) = 0
         THEN [raised |-> "ZeroDivisionError", value |-> <<>>]
         ELSE [raised |-> "none", value |-> vigenere_encode_body(text, key)]

\* the key vigenere_decode builds: each letter mirrored around 'a'
decryption_key(key) ==
    [i \in 1..Len(key) |->
        ((AlphabetSize - (lower(key[i]) - ord_a)) % AlphabetSize) + ord_a]

vigenere_decode(crypt_text, key) ==
    IF ~(Len(crypt_text) >= Len(key))
    THEN [raised |-> InvalidArgument, value |-> <<>>]
    ELSE vigenere_encode(crypt_text, decryption_key(key))

(***************************************************************************)
(* Python dicts, as sequences of [key, val] records in insertion order.    *)
(***************************************************************************)
dict_has(d, k) == \E i \in 1..Len(d) : d[i].key = k

dict_pos(d, k) == CHOOSE i \in 1..Len(d) : d[i].key = k

dict_get(d, k) == d[dict_pos(d, k)].val

\* d[k] = v: an existing key keeps its place
dict_set(d, k, v) ==
    IF dict_has(d, k)
    THEN [d EXCEPT ![dict_pos(d, k)].val = v]
    ELSE Append(d, [key |-> k, val |-> v])

\* del d[k]
dict_del(d, k) == SelectSeq(d, LAMBDA e : e.key # k)

dict_keys(d) == {d[i].key : i \in 1..Len(d)}

\* the elements of a list, as a set
Elems(l) == {l[i] : i \in 1..Len(l)}

(***************************************************************************)
(* vigenere_cracking.py                                                    *)
(***************************************************************************)
find_matches(text, pattern, candidate_locations) ==
    SelectSeq(candidate_locations,
              LAMBDA each : /\ ~(each + Len(pattern) > Len(text))
                            /\ Slice(text, each, each + Len(pattern)) = pattern)

\* the set of differences between consecutive occurrence indices
deltas_of(indices) == {indices[i + 1] - indices[i] : i \in 1..(Len(indices) - 1)}

\* get_pattern_distances without the test of lines 51-52: every difference of
\* every pattern is kept
get_pattern_distances_unfiltered(patterns) ==
    IF \E i \in 1..Len(patterns) : deltas_of(patterns[i].val) = {}
    THEN [raised |-> "IndexError", value |-> {}]
    ELSE [raised |-> "none",
          value |-> UNION {deltas_of(patterns[i].val) : i \in 1..Len(patterns)}]

\* get_pattern_distances: list(deltas)[0] raises IndexError for a pattern
\* with fewer than two occurrences; the list it returns comes out of a set,
\* so the model returns the set and the caller fixes an order.
get_pattern_distances(patterns) ==
    IF \E i \in 1..Len(patterns) : deltas_of(patterns[i].val) = {}
    THEN [raised |-> "IndexError", value |-> {}]
    ELSE [raised |-> "none",
          value |-> UNION {deltas_of(patterns[i].val) :
                             i \in {j \in 1..Len(patterns) :
                                      ~(Cardinality(deltas_of(patterns[j].val)) > 1)}}]

\* get_factors with the operands of % exchanged
get_factors_swapped(number) ==
    SelectSeq([i \in 1..number |-> i], LAMBDA i : i % number = 0)

get_factors(number) ==
    SelectSeq([i \in 1..number |-> i], LAMBDA i : number % i = 0)

RECURSIVE extend_occurrences_thrice(_, _, _, _, _)
\* lines 94-100 with `len(matches) > 2` at line 98: a longer pattern is kept
\* only from its third occurrence on
extend_occurrences_thrice(crypt_text, entry, tentative_pattern_length, each_occurence, new_patterns) ==
    IF each_occurence >= Len(entry.val)
    THEN new_patterns
    ELSE LET index == entry.val[each_occurence + 1]
             tentative_pattern == Slice(crypt_text, index, index + tentative_pattern_length)
             matches == find_matches(crypt_text, tentative_pattern, entry.val)
         IN  extend_occurrences_thrice(crypt_text, entry, tentative_pattern_length,
                                       each_occurence + 1,
                                       IF Len(matches) > 2
                                       THEN dict_set(new_patterns, tentative_pattern, matches)
                                       ELSE new_patterns)

RECURSIVE extend_occurrences(_, _, _, _, _)
\* lines 94-100: the loop over the occurrences of one pattern
extend_occurrences(crypt_text, entry, tentative_pattern_length, each_occurence, new_patterns) ==
    IF each_occurence >= Len(entry.val)
    THEN new_patterns
    ELSE LET index == entry.val[each_occurence + 1]
             tentative_pattern == Slice(crypt_text, index, index + tentative_pattern_length)
             matches == find_matches(crypt_text, tentative_pattern, entry.val)
         IN  extend_occurrences(crypt_text, entry, tentative_pattern_length,
                                each_occurence + 1,
                                IF Len(matches) > 1
                                THEN dict_set(new_patterns, tentative_pattern, matches)
                                ELSE new_patterns)

RECURSIVE extend_patterns(_, _, _, _, _)
\* lines 89-100: new_patterns after the loop over patterns.keys() from the
\* i-th key on; `changed` is true exactly when new_patterns is not empty
extend_patterns(crypt_text, patterns, maximum_pattern_length, i, new_patterns) ==
    IF i > Len(patterns)
    THEN new_patterns
    ELSE LET tentative_pattern_length == Len(patterns[i].key) + 1
         IN  extend_patterns(crypt_text, patterns, maximum_pattern_length, i + 1,
                 IF tentative_pattern_length > maximum_pattern_length
                 THEN new_patterns
                 ELSE extend_occurrences(crypt_text, patterns[i],
                                         tentative_pattern_length, 0, new_patterns))

\* line 104 written as `patterns = recursive_patterns`
replace_by_recursive(patterns, recursive_patterns, i) == recursive_patterns

RECURSIVE merge_recursive(_, _, _)
\* lines 103-104: patterns[each_pattern] = recursive_patterns[each_pattern]
merge_recursive(patterns, recursive_patterns, i) ==
    IF i > Len(recursive_patterns)
    THEN patterns
    ELSE merge_recursive(dict_set(patterns, recursive_patterns[i].key,
                                  recursive_patterns[i].val),
                         recursive_patterns, i + 1)

RECURSIVE scan_patterns(_, _, _, _)
\* lines 121-130: every substring of the minimum length with its indices
scan_patterns(crypt_text, minimum_pattern_length, index, patterns) ==
    IF index >= Len(crypt_text) \/ index + minimum_pattern_length > Len(crypt_text)
    THEN patterns
    ELSE LET current_pattern == Slice(crypt_text, index, index + minimum_pattern_length)
         IN  scan_patterns(crypt_text, minimum_pattern_length, index + 1,
                 IF dict_has(patterns, current_pattern)
                 THEN dict_set(patterns, current_pattern,
                               Append(dict_get(patterns, current_pattern), index))
                 ELSE Append(patterns, [key |-> current_pattern, val |-> <<index>>]))

RECURSIVE sorted_ascending(_)
\* line 133 without reverse=True
sorted_ascending(items) ==
    IF items = <<>>
    THEN <<>>
    ELSE LET rest == sorted_ascending(Tail(items))
             h == Head(items)
         IN  SelectSeq(rest, LAMBDA e : Len(e.val) < Len(h.val))
               \o <<h>>
               \o SelectSeq(rest, LAMBDA e : ~(Len(e.val) < Len(h.val)))

RECURSIVE sorted_by_count(_)
\* line 133: sorted(items, key=len of the list, reverse=True); the sort is
\* stable, so equal counts keep their order of first appearance
sorted_by_count(items) ==
    IF items = <<>>
    THEN <<>>
    ELSE LET rest == sorted_by_count(Tail(items))
             h == Head(items)
         IN  SelectSeq(rest, LAMBDA e : Len(e.val) > Len(h.val))
               \o <<h>>
               \o SelectSeq(rest, LAMBDA e : ~(Len(e.val) > Len(h.val)))

\* lines 134-137 without the break on a single occurrence
take_all(pairs) == pairs

RECURSIVE take_repeated(_)
\* lines 134-137: copy the pairs up to the first that occurs once
take_repeated(pairs) ==
    IF pairs = <<>> \/ Len(Head(pairs).val) <= 1
    THEN <<>>
    ELSE <<Head(pairs)>> \o take_repeated(Tail(pairs))

initialize_patterns(crypt_text, minimum_pattern_length) ==
    take_repeated(sorted_by_count(scan_patterns(crypt_text, minimum_pattern_length, 0, <<>>)))

\* str.index: the offset of the first occurrence of sub in s, -1 if none
\* (where Python raises ValueError)
str_index(s, sub) ==
    LET offsets == {d \in 0..(Len(s) - Len(sub)) : Slice(s, d, d + Len(sub)) = sub}
    IN  IF offsets = {} THEN -1
        ELSE CHOOSE d \in offsets : \A e \in offsets : d <= e

\* lines 159-174 without the adjustment of lines 165-171: the suspect's
\* indices are compared as they are
coincides_unadjusted(suspect, larger) ==
    /\ ~(Len(suspect.key) >= Len(larger.key))
    /\ str_index(larger.key, suspect.key) >= 0
    /\ ~(Len(suspect.val) # Len(larger.val))
    /\ suspect.val = larger.val

\* lines 159-174: suspect coincides with larger
coincides(suspect, larger) ==
    /\ ~(Len(suspect.key) >= Len(larger.key))
    /\ str_index(larger.key, suspect.key) >= 0
    /\ ~(Len(suspect.val) # Len(larger.val))
    /\ LET difference == str_index(larger.key, suspect.key)
           adjusted == [x \in 1..Len(suspect.val) |-> suspect.val[x] - difference]
       IN  adjusted = larger.val

\* lines 155-180: the keys marked for deletion, in iteration order
keys_to_delete(patterns) ==
    SelectSeq([i \in 1..Len(patterns) |-> patterns[i].key],
              LAMBDA k : \E j \in 1..Len(patterns) :
                            coincides([key |-> k, val |-> dict_get(patterns, k)], patterns[j]))

\* lines 169-171 written as an update of the suspect's own list: a kept
\* pattern is left with its indices shifted by its offset in the first
\* larger pattern of the same count that contains it
remove_redundant_shifting(patterns) ==
    LET marked == keys_to_delete(patterns)
        kept == SelectSeq(patterns, LAMBDA e : e.key \notin Elems(marked))
        candidates(e) == {j \in 1..Len(patterns) :
                            /\ Len(e.key) < Len(patterns[j].key)
                            /\ str_index(patterns[j].key, e.key) >= 0
                            /\ Len(e.val) = Len(patterns[j].val)}
        first(e) == CHOOSE j \in candidates(e) : \A k \in candidates(e) : j <= k
    IN  [i \in 1..Len(kept) |->
            IF candidates(kept[i]) = {}
            THEN kept[i]
            ELSE [key |-> kept[i].key,
                  val |-> [x \in 1..Len(kept[i].val) |->
                             kept[i].val[x] - str_index(patterns[first(kept[i])].key, kept[i].key)]]]

RECURSIVE remove_redundant_patterns(_)
remove_redundant_patterns(patterns) ==
    LET marked == keys_to_delete(patterns)
    IN  IF marked # <<>>
        THEN remove_redundant_patterns(
                 SelectSeq(patterns, LAMBDA e : e.key \notin Elems(marked)))
        ELSE patterns

RECURSIVE union_all(_, _)
\* line 210 with | in place of &
union_all(factors_of_distances, i) ==
    IF i = 1
    THEN Elems(factors_of_distances[1])
    ELSE union_all(factors_of_distances, i - 1) \cup Elems(factors_of_distances[i])

RECURSIVE intersect_all(_, _)
\* lines 207-210: the running intersection, as the set the code rebuilds in
\* every round
intersect_all(factors_of_distances, i) ==
    IF i = 1
    THEN Elems(factors_of_distances[1])
    ELSE intersect_all(factors_of_distances, i - 1) \cap Elems(factors_of_distances[i])

RECURSIVE sorted_reverse(_)
\* line 211: sorted(..., reverse=True) of distinct integers
sorted_reverse(S) ==
    IF S = {}
    THEN <<>>
    ELSE LET m == CHOOSE x \in S : \A y \in S : y <= x
         IN  <<m>> \o sorted_reverse(S \ {m})

\* lines 205-212 of vigenere_kasiski_test, for a non-empty pattern_distances
possible_key_lengths_of(distances) ==
    LET factors_of_distances == [i \in 1..Len(distances) |-> get_factors(distances[i])]
    IN  sorted_reverse(intersect_all(factors_of_distances, Len(distances)))

(***************************************************************************)
(* transposition.py                                                        *)
(***************************************************************************)
\* Python's list(range(a, b))
range(a, b) == [i \in 1..(b - a) |-> a + i - 1]

\* list.reverse() and sorted(l, reverse=True) of an ascending list
reversed(l) == [i \in 1..Len(l) |-> l[Len(l) + 1 - i]]

\* lines 98-130: the locations of one rotation, every one an [x, y] pair
rotation_of(width, length, full_rotations) ==
    LET top == [i \in 1..Len(range(full_rotations, width - full_rotations)) |->
                   <<range(full_rotations, width - full_rotations)[i], full_rotations>>]
        right == [i \in 1..Len(range(full_rotations + 1, length - full_rotations)) |->
                     <<width - full_rotations - 1,
                       range(full_rotations + 1, length - full_rotations)[i]>>]
        bottom_x == reversed(range(full_rotations, (width - full_rotations) - 1))
        bottom == [i \in 1..Len(bottom_x) |-> <<bottom_x[i], length - full_rotations - 1>>]
        left_y == reversed(range(full_rotations + 1, (length - full_rotations) - 1))
        left == [i \in 1..Len(left_y) |-> <<full_rotations, left_y[i]>>]
    IN  top \o right \o bottom \o left

\* lines 134-139: the rotation reversed with its first location kept first
counter_clockwise(this_rotation) ==
    LET r == reversed(this_rotation)
    IN  <<r[Len(r)]>> \o SubSeq(r, 1, Len(r) - 1)

\* lines 98-141: this_rotation as it is appended to locations
this_rotation_of(width, length, clockwise, full_rotations) ==
    LET this_rotation == rotation_of(width, length, full_rotations)
    IN  IF Len(this_rotation) > 1 /\ ~clockwise
        THEN counter_clockwise(this_rotation)
        ELSE this_rotation

\* form_rectangle_vertically: length rows of width cells, every cell the
\* slice of one character at y + x * width, empty past the end of the text
form_rectangle_vertically(text, width, length) ==
    [row \in 1..length |->
        [column \in 1..width |->
            LET y == row - 1
                x == column - 1
            IN  Slice(text, y + x * width, y + (x * width) + 1)]]

RECURSIVE join_cells(_, _)
\* text += cell, for the first n cells of a list of cells
join_cells(cells, n) ==
    IF n = 0 THEN <<>> ELSE join_cells(cells, n - 1) \o cells[n]

\* unravel_rectangle_vertically: the cells column after column, every column
\* from the first row to the last
unravel_rectangle_vertically(rectangle) ==
    LET width == Len(rectangle[1])
        rows == Len(rectangle)
        cells == [k \in 1..(width * rows) |->
                     rectangle[((k - 1) % rows) + 1][((k - 1) \div rows) + 1]]
    IN  join_cells(cells, Len(cells))

(***************************************************************************)
(* Inputs.                                                                 *)
(***************************************************************************)
\* test_vigenere_cracking: 'CRYPTOISSHORTFORCRYPTOGRAPHY'.lower() and 'abcd'
ScenarioPlain ==
    <<99, 114, 121, 112, 116, 111, 105, 115, 115, 104, 111, 114, 116, 102,
      111, 114, 99, 114, 121, 112, 116, 111, 103, 114, 97, 112, 104, 121>>

ScenarioKey == <<97, 98, 99, 100>>

ScenarioCrypt == vigenere_encode(ScenarioPlain, ScenarioKey).value

\* "abcxpqrdefstabcdefz": abc repeats after 12 characters, def after 8
PeriodsText ==
    <<97, 98, 99, 120, 112, 113, 114, 100, 101, 102, 115, 116, 97, 98, 99,
      100, 101, 102, 122>>

SmallAlphabet == {ord_a, ord_a + 1}

KasiskiTexts == SeqsOver(SmallAlphabet, 0, MaxTextLen) \cup {ScenarioCrypt, PeriodsText}

\* 'a', 'z', 'B' and ' ': letters of both cases and a character outside the
\* alphabet
PlainAlphabet == {ord_a, ord_z, ord_A + 1, ord_A - 33}

\* 'a', 'b', 'Z' and '1': key letters of both cases and a character outside
\* the alphabet
KeyAlphabet == {ord_a, ord_a + 1, ord_Z, ord_A - 16}

\* every strictly ascending, non-empty list of indices up to MaxTableIndex
\* letters of both cases at the ends and inside of the alphabet
RotateAlphabet == {ord_a, ord_a + 1, ord_z, ord_A, ord_Z - 1, ord_Z}

IndexLists ==
    {l \in SeqsOver(0..MaxTableIndex, 1, MaxTableIndex + 1) :
        \A i \in 1..(Len(l) - 1) : l[i] < l[i + 1]}

TableEntries ==
    [key : SeqsOver(SmallAlphabet, 1, MaxTableKeyLen), val : IndexLists]

\* every dict of at most MaxTableEntries patterns, in every insertion order
Tables ==
    {t \in SeqsOver(TableEntries, 0, MaxTableEntries) :
        \A i, j \in 1..Len(t) : i # j => t[i].key # t[j].key}

(***************************************************************************)
(* State.                                                                  *)
(***************************************************************************)
VARIABLES
    pc,                      \* the statement control is at
    raised,                  \* the exception that ended the run, or "none"
    crypt_text,              \* vigenere_kasiski_test's arguments
    minimum_pattern_length,
    maximum_pattern_length,
    patterns,                \* vigenere_kasiski_test's `patterns`
    frames,                  \* the `patterns` argument of every active call of
                             \* maximize_patterns, outermost first
    returned,                \* the value the innermost call is returning
    pattern_distances,
    possible_key_lengths,
    text,                    \* the round trip's plain text and key
    key,
    encoded,                 \* what vigenere_encode(text, key) did
    decoded,                 \* what vigenere_decode did
    table,                   \* a table handed to remove_redundant_patterns
    once,                    \* remove_redundant_patterns(table)
    twice,                   \* remove_redundant_patterns(once)
    plaintext,               \* rotate's arguments
    rotate_by,
    rotated,                 \* rotate(plaintext, rotate_by)
    restored,                \* rotate(rotated, -rotate_by)
    width,                   \* get_spiral's arguments
    length,
    clockwise,
    inward,
    full_rotations,          \* get_spiral's locals
    old_num_locations,
    locations,
    rect_text,               \* form_rectangle_vertically's arguments
    rect_width,
    rect_length,
    rectangle,               \* the rectangle it returns
    unravelled               \* unravel_rectangle_vertically(rectangle)

kasiski_vars == <<crypt_text, minimum_pattern_length, maximum_pattern_length,
                  patterns, frames, returned, pattern_distances, possible_key_lengths>>

cipher_vars == <<text, key, encoded, decoded>>

table_vars == <<table, once, twice>>

rotate_vars == <<plaintext, rotate_by, rotated, restored>>

spiral_vars == <<width, length, clockwise, inward, full_rotations,
                 old_num_locations, locations>>

rectangle_vars == <<rect_text, rect_width, rect_length, rectangle, unravelled>>

vars == <<pc, raised, kasiski_vars, cipher_vars, table_vars,
          rotate_vars, spiral_vars, rectangle_vars>>

NoCall == [raised |-> "none", value |-> <<>>]

KasiskiIdle ==
    /\ crypt_text = <<>>
    /\ minimum_pattern_length = 0
    /\ maximum_pattern_length = 0
    /\ patterns = <<>>
    /\ frames = <<>>
    /\ returned = <<>>
    /\ pattern_distances = <<>>
    /\ possible_key_lengths = <<>>

CipherIdle ==
    /\ text = <<>>
    /\ key = <<>>
    /\ encoded = NoCall
    /\ decoded = NoCall

TableIdle ==
    /\ table = <<>>
    /\ once = <<>>
    /\ twice = <<>>

RotateIdle ==
    /\ plaintext = <<>>
    /\ rotate_by = 0
    /\ rotated = <<>>
    /\ restored = <<>>

SpiralIdle ==
    /\ width = 0
    /\ length = 0
    /\ clockwise = TRUE
    /\ inward = TRUE
    /\ full_rotations = 0
    /\ old_num_locations = -1
    /\ locations = <<>>

RectangleIdle ==
    /\ rect_text = <<>>
    /\ rect_width = 0
    /\ rect_length = 0
    /\ rectangle = <<>>
    /\ unravelled = <<>>

TranspositionIdle == RotateIdle /\ SpiralIdle /\ RectangleIdle

(***************************************************************************)
(* vigenere_kasiski_test, statement by statement; each call of             *)
(* maximize_patterns is a frame.                                           *)
(***************************************************************************)
Init ==
    /\ pc = "initialize"
    /\ raised = "none"
    /\ crypt_text \in KasiskiTexts
    /\ minimum_pattern_length \in 1..MaxMinimum
    /\ maximum_pattern_length \in 1..MaxMaximum
    /\ patterns = <<>>
    /\ frames = <<>>
    /\ returned = <<>>
    /\ pattern_distances = <<>>
    /\ possible_key_lengths = <<>>
    /\ CipherIdle
    /\ TableIdle
    /\ TranspositionIdle

\* line 198
Initialize ==
    /\ pc = "initialize"
    /\ patterns' = initialize_patterns(crypt_text, minimum_pattern_length)
    /\ pc' = "maximize"
    /\ UNCHANGED <<raised, crypt_text, minimum_pattern_length, maximum_pattern_length,
                   frames, returned, pattern_distances, possible_key_lengths,
                   cipher_vars, table_vars,
                   rotate_vars, spiral_vars, rectangle_vars>>

\* line 200: the outermost call of maximize_patterns
MaximizeCall ==
    /\ pc = "maximize"
    /\ frames' = <<patterns>>
    /\ pc' = "maximize_body"
    /\ UNCHANGED <<raised, crypt_text, minimum_pattern_length, maximum_pattern_length,
                   patterns, returned, pattern_distances, possible_key_lengths,
                   cipher_vars, table_vars,
                   rotate_vars, spiral_vars, rectangle_vars>>

\* new_patterns of the innermost call
new_patterns_of_top ==
    extend_patterns(crypt_text, frames[Len(frames)], maximum_pattern_length, 1, <<>>)

\* lines 88-102 with `changed` true: the call recurses on new_patterns
MaximizeRecurse ==
    /\ pc = "maximize_body"
    /\ new_patterns_of_top # <<>>
    /\ Len(frames) < RecursionLimit
    /\ frames' = Append(frames, new_patterns_of_top)
    /\ UNCHANGED <<pc, raised, crypt_text, minimum_pattern_length, maximum_pattern_length,
                   patterns, returned, pattern_distances, possible_key_lengths,
                   cipher_vars, table_vars,
                   rotate_vars, spiral_vars, rectangle_vars>>

\* the same with the interpreter's stack exhausted: RecursionError
MaximizeOverflow ==
    /\ pc = "maximize_body"
    /\ new_patterns_of_top # <<>>
    /\ ~(Len(frames) < RecursionLimit)
    /\ raised' = "RecursionError"
    /\ pc' = "raised"
    /\ UNCHANGED <<crypt_text, minimum_pattern_length, maximum_pattern_length,
                   patterns, frames, returned, pattern_distances, possible_key_lengths,
                   cipher_vars, table_vars,
                   rotate_vars, spiral_vars, rectangle_vars>>

\* lines 88-101, 105 with `changed` false: the call returns its argument
MaximizeUnchanged ==
    /\ pc = "maximize_body"
    /\ new_patterns_of_top = <<>>
    /\ returned' = frames[Len(frames)]
    /\ pc' = "maximize_return"
    /\ UNCHANGED <<raised, crypt_text, minimum_pattern_length, maximum_pattern_length,
                   patterns, frames, pattern_distances, possible_key_lengths,
                   cipher_vars, table_vars,
                   rotate_vars, spiral_vars, rectangle_vars>>

\* lines 102-105 in the caller of the call that returns: it copies the
\* returned entries into its own patterns and returns them
MaximizeReturnInner ==
    /\ pc = "maximize_return"
    /\ Len(frames) > 1
    /\ returned' = merge_recursive(frames[Len(frames) - 1], returned, 1)
    /\ frames' = SubSeq(frames, 1, Len(frames) - 1)
    /\ UNCHANGED <<pc, raised, crypt_text, minimum_pattern_length, maximum_pattern_length,
                   patterns, pattern_distances, possible_key_lengths,
                   cipher_vars, table_vars,
                   rotate_vars, spiral_vars, rectangle_vars>>

\* line 200: the outermost call returns to vigenere_kasiski_test
MaximizeReturnOuter ==
    /\ pc = "maximize_return"
    /\ Len(frames) = 1
    /\ patterns' = returned
    /\ frames' = <<>>
    /\ returned' = <<>>
    /\ pc' = "remove_redundant"
    /\ UNCHANGED <<raised, crypt_text, minimum_pattern_length, maximum_pattern_length,
                   pattern_distances, possible_key_lengths, cipher_vars, table_vars,
                   rotate_vars, spiral_vars, rectangle_vars>>

\* line 201
RemoveRedundant ==
    /\ pc = "remove_redundant"
    /\ patterns' = remove_redundant_patterns(patterns)
    /\ pc' = "distances"
    /\ UNCHANGED <<raised, crypt_text, minimum_pattern_length, maximum_pattern_length,
                   frames, returned, pattern_distances, possible_key_lengths,
                   cipher_vars, table_vars,
                   rotate_vars, spiral_vars, rectangle_vars>>

\* line 203: list(set(...)) lists the periods in an order of the set's choosing
PatternDistances ==
    /\ pc = "distances"
    /\ get_pattern_distances(patterns).raised = "none"
    /\ pattern_distances' \in Orderings(get_pattern_distances(patterns).value)
    /\ pc' = "key_lengths"
    /\ UNCHANGED <<raised, crypt_text, minimum_pattern_length, maximum_pattern_length,
                   patterns, frames, returned, possible_key_lengths,
                   cipher_vars, table_vars,
                   rotate_vars, spiral_vars, rectangle_vars>>

\* lines 205-212
KeyLengths ==
    /\ pc = "key_lengths"
    /\ pattern_distances # <<>>
    /\ possible_key_lengths' = possible_key_lengths_of(pattern_distances)
    /\ pc' = "done"
    /\ UNCHANGED <<raised, crypt_text, minimum_pattern_length, maximum_pattern_length,
                   patterns, frames, returned, pattern_distances,
                   cipher_vars, table_vars,
                   rotate_vars, spiral_vars, rectangle_vars>>

\* line 207 with no period: factors_of_distances[0] raises IndexError
KeyLengthsNoPeriod ==
    /\ pc = "key_lengths"
    /\ pattern_distances = <<>>
    /\ raised' = "IndexError"
    /\ pc' = "raised"
    /\ UNCHANGED <<crypt_text, minimum_pattern_length, maximum_pattern_length,
                   patterns, frames, returned, pattern_distances, possible_key_lengths,
                   cipher_vars, table_vars,
                   rotate_vars, spiral_vars, rectangle_vars>>

Next ==
    \/ Initialize
    \/ MaximizeCall
    \/ MaximizeRecurse
    \/ MaximizeOverflow
    \/ MaximizeUnchanged
    \/ MaximizeReturnInner
    \/ MaximizeReturnOuter
    \/ RemoveRedundant
    \/ PatternDistances
    \/ KeyLengths
    \/ KeyLengthsNoPeriod

Spec == Init /\ [][Next]_vars

(***************************************************************************)
(* The round trip of test_vigenere_cracking (lines 238-240) on any text    *)
(* and key, and a call of vigenere_decode on its own.                      *)
(***************************************************************************)
CipherInit ==
    /\ pc = "encode"
    /\ raised = "none"
    /\ text \in SeqsOver(PlainAlphabet, 0, MaxPlainLen)
    /\ key \in SeqsOver(KeyAlphabet, 0, MaxKeyLen)
    /\ encoded = NoCall
    /\ decoded = NoCall
    /\ KasiskiIdle
    /\ TableIdle
    /\ TranspositionIdle

\* line 238: crypt_text = vigenere_encode(plain_text, key)
Encode ==
    /\ pc = "encode"
    /\ encoded' = vigenere_encode(text, key)
    /\ raised' = encoded'.raised
    /\ pc' = IF encoded'.raised = "none" THEN "decode" ELSE "encode_raised"
    /\ UNCHANGED <<text, key, decoded, kasiski_vars, table_vars,
                   rotate_vars, spiral_vars, rectangle_vars>>

\* line 240: vigenere_decode(crypt_text, key)
Decode ==
    /\ pc = "decode"
    /\ decoded' = vigenere_decode(encoded.value, key)
    /\ raised' = decoded'.raised
    /\ pc' = IF decoded'.raised = "none" THEN "round_trip_done" ELSE "decode_raised"
    /\ UNCHANGED <<text, key, encoded, kasiski_vars, table_vars,
                   rotate_vars, spiral_vars, rectangle_vars>>

\* vigenere_decode(text, key), not preceded by an encode
DecodeOnly ==
    /\ pc = "encode"
    /\ decoded' = vigenere_decode(text, key)
    /\ raised' = decoded'.raised
    /\ pc' = IF decoded'.raised = "none" THEN "decode_only_done" ELSE "decode_only_raised"
    /\ UNCHANGED <<text, key, encoded, kasiski_vars, table_vars,
                   rotate_vars, spiral_vars, rectangle_vars>>

CipherNext ==
    \/ Encode
    \/ Decode
    \/ DecodeOnly

CipherSpec == CipherInit /\ [][CipherNext]_vars

(***************************************************************************)
(* remove_redundant_patterns on any table, and again on its result.        *)
(***************************************************************************)
TableInit ==
    /\ pc = "remove_once"
    /\ raised = "none"
    /\ table \in Tables
    /\ once = <<>>
    /\ twice = <<>>
    /\ KasiskiIdle
    /\ CipherIdle
    /\ TranspositionIdle

RemoveOnce ==
    /\ pc = "remove_once"
    /\ once' = remove_redundant_patterns(table)
    /\ pc' = "remove_twice"
    /\ UNCHANGED <<raised, table, twice, kasiski_vars, cipher_vars,
                   rotate_vars, spiral_vars, rectangle_vars>>

RemoveTwice ==
    /\ pc = "remove_twice"
    /\ twice' = remove_redundant_patterns(once)
    /\ pc' = "removed_twice"
    /\ UNCHANGED <<raised, table, once, kasiski_vars, cipher_vars,
                   rotate_vars, spiral_vars, rectangle_vars>>

TableNext ==
    \/ RemoveOnce
    \/ RemoveTwice

TableSpec == TableInit /\ [][TableNext]_vars

(***************************************************************************)
(* rotate(rotate(plaintext, rotate_by), -rotate_by)                        *)
(***************************************************************************)
RotateInit ==
    /\ pc = "rotate"
    /\ raised = "none"
    /\ plaintext \in SeqsOver(RotateAlphabet, 0, MaxRotateLen)
    /\ rotate_by \in (-MaxRotateBy)..MaxRotateBy
    /\ rotated = <<>>
    /\ restored = <<>>
    /\ KasiskiIdle
    /\ CipherIdle
    /\ TableIdle
    /\ SpiralIdle
    /\ RectangleIdle

Rotate ==
    /\ pc = "rotate"
    /\ rotated' = rotate(plaintext, rotate_by)
    /\ pc' = "rotate_back"
    /\ UNCHANGED <<raised, plaintext, rotate_by, restored, kasiski_vars, cipher_vars,
                   table_vars, spiral_vars, rectangle_vars>>

RotateBack ==
    /\ pc = "rotate_back"
    /\ restored' = rotate(rotated, -rotate_by)
    /\ pc' = "rotated_back"
    /\ UNCHANGED <<raised, plaintext, rotate_by, rotated, kasiski_vars, cipher_vars,
                   table_vars, spiral_vars, rectangle_vars>>

RotateNext ==
    \/ Rotate
    \/ RotateBack

RotateSpec == RotateInit /\ [][RotateNext]_vars

(***************************************************************************)

(* get_spiral, one step for every pass of its while loop                   *)
(***************************************************************************)
SpiralInit ==
    /\ pc = "spiral_loop"
    /\ raised = "none"
    /\ width \in 1..MaxSpiralSide
    /\ length \in 1..MaxSpiralSide
    /\ clockwise \in BOOLEAN
    /\ inward \in BOOLEAN
    /\ full_rotations = 0
    /\ locations = <<>>
    /\ old_num_locations = -1
    /\ KasiskiIdle
    /\ CipherIdle
    /\ TableIdle
    /\ RotateIdle
    /\ RectangleIdle

\* lines 97-143: one pass of the loop
SpiralRotation ==
    /\ pc = "spiral_loop"
    /\ Len(locations) > old_num_locations
    /\ old_num_locations' = Len(locations)
    /\ locations' = locations \o this_rotation_of(width, length, clockwise, full_rotations)
    /\ full_rotations' = full_rotations + 1
    /\ UNCHANGED <<pc, raised, width, length, clockwise, inward, kasiski_vars,
                   cipher_vars, table_vars, rotate_vars, rectangle_vars>>

\* lines 97 and 145-147: the loop ends and the list is returned
SpiralReturn ==
    /\ pc = "spiral_loop"
    /\ ~(Len(locations) > old_num_locations)
    /\ locations' = IF ~inward THEN reversed(locations) ELSE locations
    /\ pc' = "spiral_done"
    /\ UNCHANGED <<raised, width, length, clockwise, inward, full_rotations,
                   old_num_locations, kasiski_vars, cipher_vars, table_vars,
                   rotate_vars, rectangle_vars>>

SpiralNext ==
    \/ SpiralRotation
    \/ SpiralReturn

SpiralSpec == SpiralInit /\ [][SpiralNext]_vars

(***************************************************************************)

(* form_rectangle_vertically, then unravel_rectangle_vertically            *)
(***************************************************************************)
RectangleInit ==
    /\ pc = "form_rectangle"
    /\ raised = "none"
    /\ rect_width \in 1..MaxRectangleSide
    /\ rect_length \in 1..MaxRectangleSide
    /\ rect_text \in SeqsOver(SmallAlphabet, rect_width * rect_length,
                              rect_width * rect_length)
    /\ rectangle = <<>>
    /\ unravelled = <<>>
    /\ KasiskiIdle
    /\ CipherIdle
    /\ TableIdle
    /\ RotateIdle
    /\ SpiralIdle

FormRectangle ==
    /\ pc = "form_rectangle"
    /\ rectangle' = form_rectangle_vertically(rect_text, rect_width, rect_length)
    /\ pc' = "unravel"
    /\ UNCHANGED <<raised, rect_text, rect_width, rect_length, unravelled,
                   kasiski_vars, cipher_vars, table_vars, rotate_vars, spiral_vars>>

Unravel ==
    /\ pc = "unravel"
    /\ unravelled' = unravel_rectangle_vertically(rectangle)
    /\ pc' = "unravelled"
    /\ UNCHANGED <<raised, rect_text, rect_width, rect_length, rectangle,
                   kasiski_vars, cipher_vars, table_vars, rotate_vars, spiral_vars>>

RectangleNext ==
    \/ FormRectangle
    \/ Unravel

RectangleSpec == RectangleInit /\ [][RectangleNext]_vars

(***************************************************************************)

(* Properties.                                                             *)
(***************************************************************************)
StrictlyAscending(l) == \A i \in 1..(Len(l) - 1) : l[i] < l[i + 1]

StrictlyDescending(l) == \A i \in 1..(Len(l) - 1) : l[i] > l[i + 1]

\* the positions of text at which pattern starts
StartsOf(txt, pattern) ==
    {i \in 0..(Len(txt) - Len(pattern)) : SubSeq(txt, i + 1, i + Len(pattern)) = pattern}

\* the substrings of text of length n
SubstringsOf(txt, n) == {SubSeq(txt, i + 1, i + n) : i \in 0..(Len(txt) - n)}

ScenarioRun ==
    /\ crypt_text = ScenarioCrypt
    /\ minimum_pattern_length = 3
    /\ maximum_pattern_length = 6

\* C1: the examination of vigenere_encode("cryptoisshortforcryptography",
\* "abcd") with minimum_pattern_length 3 and maximum_pattern_length 6 ends by
\* returning a list of key lengths, and 4 is in it.
C1_ScenarioIncludesFour ==
    (ScenarioRun /\ pc \in {"done", "raised"})
        => (pc = "done" /\ 4 \in Elems(possible_key_lengths))

C1_Witness ==
    /\ ScenarioRun
    /\ pc = "done"
    /\ possible_key_lengths = <<16, 8, 4, 2, 1>>

\* C2: maximize_patterns terminates and never nests more than
\* maximum_pattern_length - minimum_pattern_length recursive calls (none when
\* the maximum is below the minimum), whatever the text, also when a tracked
\* pattern ends at the end of the text.
C2_MaximizeNestingBounded ==
    /\ raised # "RecursionError"
    /\ frames # <<>> =>
          Len(frames) - 1 <= IF maximum_pattern_length >= minimum_pattern_length
                             THEN maximum_pattern_length - minimum_pattern_length
                             ELSE 0

\* C3: for every text and key with len(key) <= len(text), encoding and then
\* decoding with the same key ends and gives the text back.
C3_RoundTrip ==
    (Len(key) <= Len(text) /\ pc \in {"encode_raised", "decode_raised", "round_trip_done"})
        => (pc = "round_trip_done" /\ decoded.value = text)

\* With a key of at least one character the round trip of C3 does end and
\* give the text back: the empty key is the only failure.
RoundTripNonEmptyKey ==
    (Len(key) >= 1 /\ Len(key) <= Len(text)
       /\ pc \in {"encode_raised", "decode_raised", "round_trip_done"})
        => (pc = "round_trip_done" /\ decoded.value = text)

\* C4: when the examination returns, its list holds exactly the positive
\* integers that divide every retained period, in strictly descending order;
\* for the periods 12 and 8 it is [4, 2, 1].
C4_KeyLengthsAreCommonDivisors ==
    pc = "done" =>
        /\ Elems(possible_key_lengths) =
              {d \in 1..Len(crypt_text) :
                  \A i \in 1..Len(pattern_distances) : pattern_distances[i] % d = 0}
        /\ StrictlyDescending(possible_key_lengths)
        /\ (Elems(pattern_distances) = {12, 8} => possible_key_lengths = <<4, 2, 1>>)

C4_Witness ==
    /\ pc = "done"
    /\ Elems(pattern_distances) = {12, 8}
    /\ possible_key_lengths = <<4, 2, 1>>

\* C5: when no period is retained, the factor-intersection step fails with
\* InvalidArgument.
C5_NoPeriodIsInvalidArgument ==
    (pc = "raised" /\ frames = <<>> /\ pattern_distances = <<>>)
        => raised = InvalidArgument

\* C6: in the table maximize_patterns returns, every pattern longer than the
\* minimum has its prefix one character shorter in the table, and its indices
\* are among the indices of that prefix.
C6_PrefixMonotone ==
    pc = "remove_redundant" =>
        \A i \in 1..Len(patterns) :
            Len(patterns[i].key) > minimum_pattern_length =>
                LET prefix == SubSeq(patterns[i].key, 1, Len(patterns[i].key) - 1)
                IN  /\ dict_has(patterns, prefix)
                    /\ Elems(patterns[i].val) \subseteq Elems(dict_get(patterns, prefix))

C6_Witness ==
    /\ pc = "remove_redundant"
    /\ \E i \in 1..Len(patterns) :
          /\ Len(patterns[i].key) > minimum_pattern_length
          /\ LET prefix == SubSeq(patterns[i].key, 1, Len(patterns[i].key) - 1)
             IN  /\ dict_has(patterns, prefix)
                 /\ Elems(patterns[i].val) # Elems(dict_get(patterns, prefix))

\* C7: remove_redundant_patterns applied to its own result changes nothing.
C7_RemoveIdempotent ==
    pc = "removed_twice" => twice = once

C7_Witness ==
    /\ pc = "removed_twice"
    /\ Len(once) < Len(table)
    /\ twice = once

WellFormedTable(t) ==
    \A i \in 1..Len(t) : Len(t[i].val) >= 2 /\ StrictlyAscending(t[i].val)

\* C8: after initialize_patterns, after maximize_patterns and after
\* remove_redundant_patterns, every pattern of the table has at least two
\* indices, strictly ascending.
C8_TwoAscendingOccurrences ==
    pc \in {"maximize", "remove_redundant", "distances"} => WellFormedTable(patterns)

C8_Witness ==
    /\ pc = "distances"
    /\ Len(patterns) >= 2
    /\ \E i \in 1..Len(patterns) : Len(patterns[i].val) >= 3

\* C9: initialize_patterns returns exactly the substrings of the minimum
\* length that start at two or more positions, each with all of its start
\* positions in ascending order, the entries by count descending; the table
\* is empty for a text shorter than the minimum length.
C9_InitializeExact ==
    pc = "maximize" =>
        /\ \A i, j \in 1..Len(patterns) : i # j => patterns[i].key # patterns[j].key
        /\ dict_keys(patterns) =
              {p \in SubstringsOf(crypt_text, minimum_pattern_length) :
                  Cardinality(StartsOf(crypt_text, p)) >= 2}
        /\ \A i \in 1..Len(patterns) :
              /\ StrictlyAscending(patterns[i].val)
              /\ Elems(patterns[i].val) = StartsOf(crypt_text, patterns[i].key)
        /\ \A i, j \in 1..Len(patterns) :
              i < j => Len(patterns[i].val) >= Len(patterns[j].val)
        /\ (Len(crypt_text) < minimum_pattern_length => patterns = <<>>)

C9_Witness ==
    /\ pc = "maximize"
    /\ Len(patterns) >= 2
    /\ Len(patterns[1].val) > Len(patterns[Len(patterns)].val)

\* C10: vigenere_encode and vigenere_decode called with a key longer than the
\* text raise InvalidArgument and return no text.
C10_LongKeyRefused ==
    (Len(key) > Len(text) /\ pc # "encode") =>
        \/ pc = "encode_raised" /\ encoded = [raised |-> InvalidArgument, value |-> <<>>]
        \/ pc = "decode_only_raised" /\ decoded = [raised |-> InvalidArgument, value |-> <<>>]

C10_Witness ==
    /\ Len(key) > Len(text)
    /\ pc = "decode_only_raised"
    /\ decoded.raised = InvalidArgument

\* C11: rotating a text of Latin letters by n and then by -n gives the text
\* back, for every integer n: negative, zero, and 26 or more.
C11_RotateBackRestores ==
    pc = "rotated_back" => restored = plaintext

C11_Witness ==
    /\ pc = "rotated_back"
    /\ rotate_by <= -AlphabetSize
    /\ Len(plaintext) = MaxRotateLen
    /\ rotated # plaintext
    /\ restored = plaintext

\* S is redundant with respect to L: S is a proper-length substring of L, both
\* have the same number of indices, and every index of S less the offset of
\* the first occurrence of S in L is the index of L at the same place
RedundantWrt(S, L) ==
    /\ Len(S.key) < Len(L.key)
    /\ StartsOf(L.key, S.key) # {}
    /\ Len(S.val) = Len(L.val)
    /\ LET offset == CHOOSE d \in StartsOf(L.key, S.key) :
                         \A e \in StartsOf(L.key, S.key) : d <= e
       IN  \A x \in 1..Len(S.val) : S.val[x] - offset = L.val[x]

\* C12: remove_redundant_patterns returns exactly the patterns of its input
\* that are not redundant with respect to any longer pattern of the input, in
\* the input's order and with their index lists unchanged.
C12_RemoveExact ==
    pc \in {"remove_twice", "removed_twice"} =>
        once = SelectSeq(table, LAMBDA S :
                   ~(\E j \in 1..Len(table) : RedundantWrt(S, table[j])))

C12_Witness ==
    /\ pc = "remove_twice"
    /\ Len(table) = MaxTableEntries
    /\ Len(once) = Len(table) - 1
    /\ \E i, j \in 1..Len(table) :
          /\ RedundantWrt(table[i], table[j])
          /\ 0 \notin StartsOf(table[j].key, table[i].key)

\* the pattern's consecutive indices are all d apart
RepeatsEvery(indices, d) ==
    \A k \in 1..(Len(indices) - 1) : indices[k + 1] - indices[k] = d

\* C13: get_pattern_distances returns, without duplicates, exactly the
\* distances d such that some pattern of the table has all its consecutive
\* index differences equal to d; a pattern with more than one difference
\* value contributes nothing.
C13_DistancesExact ==
    pc = "key_lengths" =>
        /\ \A i, j \in 1..Len(pattern_distances) :
              i # j => pattern_distances[i] # pattern_distances[j]
        /\ Elems(pattern_distances) =
              {d \in 1..Len(crypt_text) :
                  \E i \in 1..Len(patterns) : RepeatsEvery(patterns[i].val, d)}

C13_Witness ==
    /\ pc = "key_lengths"
    /\ pattern_distances # <<>>
    /\ \E i \in 1..Len(patterns) :
          \A d \in 1..Len(crypt_text) : ~RepeatsEvery(patterns[i].val, d)

\* C14: when maximize_patterns returns on the table of initialize_patterns,
\* the table holds every substring of a length from the minimum to the
\* maximum pattern length that starts at two or more positions of the text,
\* overlapping ones included, each with every one of its start positions.
C14_MaximizeComplete ==
    pc = "remove_redundant" =>
        \A n \in minimum_pattern_length..maximum_pattern_length :
            \A p \in SubstringsOf(crypt_text, n) :
                Cardinality(StartsOf(crypt_text, p)) >= 2 =>
                    /\ dict_has(patterns, p)
                    /\ Elems(dict_get(patterns, p)) = StartsOf(crypt_text, p)

C14_Witness ==
    /\ pc = "remove_redundant"
    /\ \E i \in 1..Len(patterns) :
          /\ Len(patterns[i].key) > minimum_pattern_length
          /\ Len(patterns[i].key) = maximum_pattern_length
          /\ \E a, b \in StartsOf(crypt_text, patterns[i].key) :
                a < b /\ b < a + Len(patterns[i].key)

\* the cells of a rectangle of the given width and length
CellsOf(w, l) == {<<x, y>> : x \in 0..(w - 1), y \in 0..(l - 1)}

\* C15: for every width and length of at least 1 and both values of
\* clockwise and inward, get_spiral returns every cell (x, y) with
\* 0 <= x < width and 0 <= y < length exactly once, and no other cell.
C15_SpiralVisitsEachCellOnce ==
    pc = "spiral_done" =>
        /\ Len(locations) = width * length
        /\ Elems(locations) = CellsOf(width, length)

\* what the code does keep: on a square and on a rectangle one longer than
\* wide the returned list is each cell once
SpiralExactOnNearSquares ==
    (pc = "spiral_done" /\ length \in {width, width + 1}) =>
        /\ Len(locations) = width * length
        /\ Elems(locations) = CellsOf(width, length)

\* C16: for a text of exactly width * length characters, unravelling the
\* rectangle that form_rectangle_vertically builds gives the text back, also
\* when width and length differ.
C16_VerticalRoundTrip ==
    pc = "unravelled" => unravelled = rect_text

\* what the code does keep: the round trip on squares and on a single column
RectangleRoundTripOnSquares ==
    (pc = "unravelled" /\ (rect_width = rect_length \/ rect_width = 1)) =>
        unravelled = rect_text

====
